---- MODULE Spec2Model ----
(***************************************************************************)
(* Model of src/components/DeepfakeDetector.tsx: the React component's     *)
(* state slots, its event handlers and the async function                  *)
(* simulateMLProcessing, whose body is cut at each `await` into the steps  *)
(* the JavaScript event loop runs atomically.                              *)
(*                                                                         *)
(* Units: times are in tenths of a second (800 ms = 8, 4.6 s = 46).        *)
(* progress is kept exactly, in units of 1/stages.length percent, so that  *)
(* ((i + 1) / stages.length) * 100 is the integer (i + 1) * 100 and the    *)
(* value 100 percent is 100 * stages.length.                               *)
(***************************************************************************)
EXTENDS Integers, Sequences, FiniteSets, TLC

\* ------------------------------------------------------------------ bounds
\* number of invocations of simulateMLProcessing explored
MaxRuns == 2
\* number of accepted file selections (URL.createObjectURL calls) explored
MaxUrls == 2
\* largest total lateness of the setTimeout callbacks of one run, in tenths
\* of a second
MaxLate == 1

\* --------------------------------------------------------------- constants
\* null; a File or a DetectionResult x held in a nullable slot is <<x>>
NULL == << >>

\* no toast shown yet
NoToast == "none"

\* the prefix tested by handleFileSelect
VideoPrefix == <<"v", "i", "d", "e", "o", "/">>

\* the files a user can hand to the component: name and media type
Files ==
  { [name |-> "a.mp4",  type |-> <<"v", "i", "d", "e", "o", "/", "m", "p", "4">>],
    [name |-> "b.webm", type |-> <<"v", "i", "d", "e", "o", "/", "w", "e", "b", "m">>],
    [name |-> "c.png",  type |-> <<"i", "m", "a", "g", "e", "/", "p", "n", "g">>],
    [name |-> "d.bin",  type |-> <<"x", "-", "v", "i", "d", "e", "o", "/", "x">>],
    [name |-> "e",      type |-> <<"v", "i", "d", "e", "o">>] }

\* the FileList of a drop or of the file input: empty, or one file first
FileLists == { << >> } \cup { <<f>> : f \in Files }

\* durations of the six stages (800, 1200, 1000, 900, 1100, 600 ms)
stages ==
  << [name |-> "Loading video frames",           duration |-> 8],
     [name |-> "Face detection & extraction",    duration |-> 12],
     [name |-> "Temporal consistency analysis",  duration |-> 10],
     [name |-> "Artifact detection",             duration |-> 9],
     [name |-> "Neural network inference",       duration |-> 11],
     [name |-> "Final classification",           duration |-> 6] >>

\* mockResult.processingTime: the literal 4.6 (seconds)
ProcessingTime == 46

RunIds == 1..MaxRuns

VARIABLES
  selectedFile,   \* useState<File | null>
  isProcessing,   \* useState(false)
  progress,       \* useState(0)
  result,         \* useState<DetectionResult | null>
  videoUrl,       \* useState<string | null>: NoUrl or the n-th object URL
  isPlaying,      \* useState(false)
  toast,          \* title of the last toast shown, NoToast when none
  runs,           \* the invocations of simulateMLProcessing, by number; file,
                  \* elapsed and late are kept while the invocation is in flight
  started,        \* how many invocations there have been
  timers,         \* the setTimeout callbacks that are pending
  resultFrom,     \* NULL, or the invocation whose setResult wrote `result`:
                  \* its number, the file selected at its start, its duration
  lastOp          \* the handler that ran last, with its argument

vars == << selectedFile, isProcessing, progress, result, videoUrl, isPlaying,
           toast, runs, started, timers, resultFrom, lastOp >>

\* ----------------------------------------------------------------- helpers
\* String.prototype.startsWith(prefix), compared position by position
RECURSIVE PrefixFrom(_, _, _)
PrefixFrom(s, prefix, k) ==
  IF k > Len(prefix) THEN TRUE
  ELSE IF k > Len(s) THEN FALSE
  ELSE IF s[k] # prefix[k] THEN FALSE
  ELSE PrefixFrom(s, prefix, k + 1)

\* a wrong test: the prefix found anywhere in the string (String.includes)
includes(s, prefix) ==
  \E o \in 0..Len(s) : PrefixFrom(SubSeq(s, o + 1, Len(s)), prefix, 1)

startsWith(s, prefix) == PrefixFrom(s, prefix, 1)

\* the value handed to setProgress after stage i (0-based):
\* ((i + 1) / stages.length) * 100, in units of 1/stages.length percent
StageProgress(i) == (i + 1) * 100

\* the loop condition of `for (let i = 0; i < stages.length; i++)`
LoopOff(i) == i < Len(stages) - 1

LoopContinues(i) == i < Len(stages)

\* a wrong loop body: two stages' timers created at once
DispatchTwo(r, i) ==
  { [run |-> r, stage |-> j, duration |-> stages[j + 1].duration] :
      j \in { k \in {i, i + 1} : k < Len(stages) } }

\* `new Promise(resolve => setTimeout(resolve, stages[i].duration))`:
\* the timers created when run r reaches stage i
Dispatch(r, i) ==
  { [run |-> r, stage |-> i, duration |-> stages[i + 1].duration] }

\* the Start Detection button disabled only before a file is chosen
StartAlways == selectedFile # NULL

\* the Start Detection button is rendered only with a selected file and is
\* disabled while isProcessing
StartEnabled == selectedFile # NULL /\ ~isProcessing

\* videoUrl is the number of the object URL it holds; NoUrl stands for null
NoUrl == 0

\* how many object URLs URL.createObjectURL has handed out
UrlCount == videoUrl

NoRun == [pc |-> "none", i |-> 0, file |-> NULL, elapsed |-> 0, late |-> 0,
          events |-> 0, published |-> 0]

Init ==
  /\ selectedFile = NULL
  /\ isProcessing = FALSE
  /\ progress = 0
  /\ result = NULL
  /\ videoUrl = NoUrl
  /\ isPlaying = FALSE
  /\ toast = NoToast
  /\ runs = [r \in RunIds |-> NoRun]
  /\ started = 0
  /\ timers = {}
  /\ resultFrom = NULL
  /\ lastOp = [op |-> "mount", file |-> NULL]

\* ----------------------------------------------------------------- actions
\* handleFileSelect(file); leaves isProcessing, isPlaying, runs, timers alone
handleFileSelect(file) ==
  IF ~startsWith(file.type, VideoPrefix)
  THEN /\ toast' = "Invalid File Type"
       /\ UNCHANGED << selectedFile, result, progress, videoUrl, resultFrom >>
  ELSE /\ UrlCount < MaxUrls
       /\ selectedFile' = <<file>>
       /\ result' = NULL
       /\ progress' = 0
       /\ videoUrl' = UrlCount + 1
       /\ toast' = "Video Loaded"
       /\ resultFrom' = NULL

\* onDrop: the first dropped file, if any, goes to handleFileSelect
handleDrop(files) ==
  /\ IF Len(files) > 0
     THEN /\ handleFileSelect(files[1])
          /\ lastOp' = [op |-> "handleFileSelect", file |-> <<files[1]>>]
     ELSE /\ lastOp' = [op |-> "handleDrop", file |-> NULL]
          /\ UNCHANGED << selectedFile, result, progress, videoUrl, toast,
                          resultFrom >>
  /\ UNCHANGED << isProcessing, isPlaying, runs, started, timers >>

\* onChange of the hidden file input
handleFileInput(files) ==
  /\ IF Len(files) > 0
     THEN /\ handleFileSelect(files[1])
          /\ lastOp' = [op |-> "handleFileSelect", file |-> <<files[1]>>]
     ELSE /\ lastOp' = [op |-> "handleFileInput", file |-> NULL]
          /\ UNCHANGED << selectedFile, result, progress, videoUrl, toast,
                          resultFrom >>
  /\ UNCHANGED << isProcessing, isPlaying, runs, started, timers >>

\* togglePlayPause: the video element exists only while videoUrl is set
togglePlayPause ==
  /\ IF videoUrl # NoUrl
     THEN isPlaying' = ~isPlaying
     ELSE UNCHANGED isPlaying
  /\ lastOp' = [op |-> "togglePlayPause", file |-> NULL]
  /\ UNCHANGED << selectedFile, isProcessing, progress, result, videoUrl,
                  toast, runs, started, timers, resultFrom >>

\* onPlay / onPause of the <video> element (it exists while videoUrl is set):
\* playback began, or it was paused or reached the end of the media
onPlay ==
  /\ videoUrl # NoUrl
  /\ isPlaying' = TRUE
  /\ lastOp' = [op |-> "onPlay", file |-> NULL]
  /\ UNCHANGED << selectedFile, isProcessing, progress, result, videoUrl,
                  toast, runs, started, timers, resultFrom >>

onPause ==
  /\ videoUrl # NoUrl
  /\ isPlaying' = FALSE
  /\ lastOp' = [op |-> "onPause", file |-> NULL]
  /\ UNCHANGED << selectedFile, isProcessing, progress, result, videoUrl,
                  toast, runs, started, timers, resultFrom >>

\* click on Start Detection: simulateMLProcessing up to its first await
simulateMLProcessing ==
  /\ StartEnabled
  /\ started < MaxRuns
  /\ LET r == started + 1 IN
       /\ started' = r
       /\ isProcessing' = TRUE
       /\ progress' = 0
       /\ runs' = [runs EXCEPT ![r] =
                     [pc |-> "awaiting", i |-> 0, file |-> selectedFile,
                      elapsed |-> 0, late |-> 0, events |-> 0,
                      published |-> 0]]
       /\ timers' = timers \cup Dispatch(r, 0)
  /\ lastOp' = [op |-> "simulateMLProcessing", file |-> NULL]
  /\ UNCHANGED << selectedFile, result, videoUrl, isPlaying, toast,
                  resultFrom >>

\* a wrong end of the run: isProcessing is left set
FinishKeepsProcessing(r, el, isDeepfake) ==
  /\ result' = << [isDeepfake |-> isDeepfake, processingTime |-> ProcessingTime] >>
  /\ resultFrom' = << [run |-> r, file |-> runs[r].file, elapsed |-> el] >>
  /\ isProcessing' = TRUE
  /\ toast' = "Analysis Complete"

\* after the loop: mockResult, setResult, setIsProcessing(false), toast
Finish(r, el, isDeepfake) ==
  /\ result' = << [isDeepfake |-> isDeepfake, processingTime |-> ProcessingTime] >>
  /\ resultFrom' = << [run |-> r, file |-> runs[r].file, elapsed |-> el] >>
  /\ isProcessing' = FALSE
  /\ toast' = "Analysis Complete"

\* a timer fires, `late` after its duration (setTimeout promises no less
\* than the duration): the awaiting run resumes, calls
\* setProgress, increments i and either awaits the next stage or finishes
TimerFire(t, late, isDeepfake) ==
  /\ t \in timers
  /\ LET r == t.run
         run == runs[r]
         i == run.i
         el == run.elapsed + t.duration + late
     IN
       IF run.pc = "awaiting" /\ t.stage = i
       THEN /\ progress' = StageProgress(i)
            /\ IF LoopContinues(i + 1)
               THEN /\ runs' = [runs EXCEPT ![r] =
                                  [run EXCEPT !.i = i + 1, !.elapsed = el,
                                              !.late = run.late + late,
                                              !.events = run.events + 1]]
                    /\ timers' = (timers \ {t}) \cup Dispatch(r, i + 1)
                    /\ UNCHANGED << result, resultFrom, isProcessing, toast >>
               ELSE /\ runs' = [runs EXCEPT ![r] =
                                  [NoRun EXCEPT !.pc = "finished", !.i = i + 1,
                                                !.events = run.events + 1,
                                                !.published = run.published + 1]]
                    /\ timers' = timers \ {t}
                    /\ Finish(r, el, isDeepfake)
       ELSE /\ late = 0
            /\ timers' = timers \ {t}
            /\ UNCHANGED << progress, runs, result, resultFrom, isProcessing,
                            toast >>
  /\ lastOp' = [op |-> "timer", file |-> NULL]
  /\ UNCHANGED << selectedFile, videoUrl, isPlaying, started >>

Drop == \E files \in FileLists : handleDrop(files)

FileInput == \E files \in FileLists : handleFileInput(files)

Start == simulateMLProcessing

Timer ==
  \E t \in timers : \E late \in 0..(MaxLate - runs[t.run].late) :
  \E d \in BOOLEAN :
    TimerFire(t, late, d)

Next ==
  Drop \/ FileInput \/ togglePlayPause \/ onPlay \/ onPause \/ Start \/ Timer

Spec == Init /\ [][Next]_vars

\* every pending setTimeout callback is eventually run by the event loop
LiveSpec == Spec /\ WF_vars(Timer)

\* ------------------------------------------------------------------ claims
\* the pending timers that belong to run r
TimersOf(r) == { t \in timers : t.run = r }

\* the runs whose stage loop is suspended at an await
Looping == { r \in RunIds : runs[r].pc = "awaiting" }

\* sum of the stage durations, in tenths of a second
RECURSIVE SumDurations(_)
SumDurations(k) == IF k = 0 THEN 0 ELSE stages[k].duration + SumDurations(k - 1)

\* a media type that starts with "video/", read off the string itself
IsVideoType(type) == Len(type) >= 6 /\ SubSeq(type, 1, 6) = VideoPrefix

\* C1: within one run the stages execute one at a time and in the declared
\* order: a run has at most one timer pending, and the pending timer is the
\* one of the stage that follows the stages already settled.
C1_Sequential ==
  \A r \in RunIds :
    /\ Cardinality(TimersOf(r)) <= 1
    /\ \A t \in TimersOf(r) :
         /\ runs[r].pc = "awaiting"
         /\ t.stage = runs[r].events
         /\ t.stage = runs[r].i
         /\ t.duration = stages[t.stage + 1].duration

C1_Witness ==
  \E t \in timers : t.stage = Len(stages) - 1 /\ runs[t.run].events = t.stage

\* C2 (as claimed): while a run is in flight the progress is
\* 100 * completedStages / totalStages and never decreases, whatever other
\* UI operations interleave.
C2_Claim ==
  /\ [](isProcessing => progress = 100 * runs[started].events)
  /\ [][isProcessing => progress' >= progress]_vars

\* C3: a start sets isProcessing at once; a run in flight keeps isProcessing
\* set; whenever isProcessing is set it is eventually cleared, and when it is
\* clear every run that was started has finished (the one terminal state of
\* the code), having published exactly once.
C3_Terminates ==
  /\ [][started' # started => isProcessing' /\ runs'[started'].pc = "awaiting"]_vars
  /\ [](\A r \in RunIds : runs[r].pc = "awaiting" => isProcessing)
  /\ [](~isProcessing =>
         \A r \in 1..started : runs[r].pc = "finished" /\ runs[r].published = 1)
  /\ isProcessing ~> ~isProcessing

C3_Witness ==
  \E r \in RunIds : started = r /\ runs[r].pc = "finished" /\ ~isProcessing

\* C4: a run publishes its result at most once, only when all stages have
\* completed and in the step that leaves Running; after that the run emits
\* no progress update.
C4_PublishedOnce ==
  /\ [](\A r \in RunIds :
          /\ runs[r].published <= 1
          /\ (runs[r].published = 1 <=> runs[r].pc = "finished")
          /\ (runs[r].published = 1 => runs[r].events = Len(stages)))
  /\ [][\A r \in RunIds :
          /\ runs'[r].published # runs[r].published =>
               /\ isProcessing /\ ~isProcessing'
               /\ result' # NULL /\ resultFrom'[1].run = r
               /\ progress' = 100 * Len(stages)
          /\ runs[r].published >= 1 => runs'[r].events = runs[r].events]_vars

C4_Witness ==
  \E r \in RunIds :
    /\ runs[r].published = 1 /\ ~isProcessing
    /\ result # NULL /\ resultFrom[1].run = r

\* C5 (as claimed): once a run is running or has terminated, start does not
\* begin another execution of the stages.
C5_Original ==
  [][(isProcessing \/ \E r \in RunIds : runs[r].pc = "finished")
       => started' = started]_vars

\* C5 (amended): start is refused only while a run is running; after a run
\* has finished, start begins a new execution; two stage loops never execute
\* at the same time.
C5_Amended ==
  /\ [](Cardinality(Looping) <= 1 /\ (Looping # {} => isProcessing))
  /\ [][isProcessing => started' = started]_vars

C5_Witness ==
  /\ started >= 2
  /\ runs[started].pc = "awaiting"
  /\ runs[started - 1].pc = "finished"

\* C7 (as claimed): while a run is running the exposed result is null.
C7_Claim == isProcessing => result = NULL

\* C8 (as claimed): the processingTime of the result is the time that passed
\* between start and the end of the run that produced it, which with the six
\* fixed durations is their sum.
C8_Claim ==
  result # NULL =>
    /\ result[1].processingTime = resultFrom[1].elapsed
    /\ result[1].processingTime = SumDurations(Len(stages))

\* C9 (as claimed): an exposed result was produced by a run that was started
\* on the file that is selected now.
C9_Claim == result # NULL => resultFrom[1].file = selectedFile

\* C10: handleFileSelect on a file whose type does not start with "video/"
\* shows the error toast and leaves selectedFile, result, progress, videoUrl
\* and isProcessing unchanged; a file that passes replaces selectedFile and
\* resets result to null and progress to 0, and nothing else replaces
\* selectedFile.
C10_Rejects ==
  [][/\ (lastOp'.op = "handleFileSelect" /\ ~IsVideoType(lastOp'.file[1].type))
          => /\ toast' = "Invalid File Type"
             /\ UNCHANGED << selectedFile, result, progress, videoUrl,
                             isProcessing >>
     /\ (lastOp'.op = "handleFileSelect" /\ IsVideoType(lastOp'.file[1].type))
          => /\ selectedFile' = lastOp'.file
             /\ result' = NULL
             /\ progress' = 0
     /\ selectedFile' # selectedFile
          => /\ lastOp'.op = "handleFileSelect"
             /\ IsVideoType(selectedFile'[1].type)]_vars

C10_Witness ==
  /\ lastOp.op = "handleFileSelect"
  /\ lastOp.file[1].name = "d.bin"
  /\ toast = "Invalid File Type"
  /\ selectedFile # NULL
  /\ result # NULL
  /\ progress = 100 * Len(stages)

====
